---- MODULE Spec2Model ----
(***************************************************************************)
(* A model of IPython.parallel.controller.scheduler.TaskScheduler: the     *)
(* Python task scheduler with msg_id DAG dependencies (after / follow),    *)
(* explicit targets, blacklists, retries, timeouts, the high water mark    *)
(* and engine registration / unregistration with stranded-task handling.   *)
(*                                                                         *)
(* Every handler of the event loop is one action.  A handler is computed   *)
(* by operators over a record `s` holding the scheduler's attributes; a    *)
(* Python exception is the field s.exc: once it is set, the rest of the    *)
(* handler is skipped and the attributes stay as they were at the raise.   *)
(* dispatch_notification catches the exceptions of its handlers; after an  *)
(* exception that nothing catches the event loop goes on with its next     *)
(* callback.                                                               *)
(***************************************************************************)
EXTENDS Integers, Sequences, FiniteSets, TLC

\* ---------------------------------------------------------------- bounds
MaxTasks == 3
MaxEngines == 2
MaxHwm == 1
MaxRetries == 1
MaxTime == 2
MaxDepIds == 2
MaxFlush == 1
MaxEvents == 6
\* runs with more tasks, and longer runs, of narrower families of headers
MaxManyTasks == 4
MaxManyEvents == 7
MaxLongEvents == 8
\* the auditor's period, in seconds
AuditPeriod == 2

Engines == 1..MaxEngines
\* dep_id = None in update_graph(None)
None == 0

VARIABLES
    targets,        \* list of engine idents (LRU order)
    loads,          \* list of engine loads, parallel to targets
    pending,        \* engine -> (msg_id -> task record)
    completed,      \* engine -> set of msg_ids
    failed,         \* engine -> set of msg_ids
    depending,      \* msg_id -> task record
    graph,          \* msg_id -> set of msg_ids waiting on it
    retries,        \* msg_id -> retries remaining
    blacklist,      \* msg_id -> set of engines
    destinations,   \* msg_id -> engine
    all_completed, all_failed, all_done, all_ids,
    receiving,      \* client_stream.on_recv is dispatch_submission
    hwm,            \* configured high water mark
    now,            \* datetime.now()
    stranded,       \* engine -> number of scheduled handle_stranded_tasks callbacks
    inflight,       \* <<engine, msg_id>> -> tasks sent to the engine and not yet answered
    replies,        \* msg_id -> sequence of the replies sent to the client
    sent,           \* the submit_task calls of the last handler, in order
    headers,        \* msg_id -> header as submitted, for the tasks still held
    exc,            \* the exception the last handler ended with, or "none"
    caught,         \* the exception dispatch_notification logged in the last handler
    family,         \* the family of headers the run's submissions come from
    hist            \* the run: how many events it has had and may have, and
                    \* the events themselves when the run records them

vars == <<targets, loads, pending, completed, failed, depending, graph, retries,
          blacklist, destinations, all_completed, all_failed, all_done, all_ids,
          receiving, hwm, now, stranded, inflight, replies, sent, headers, exc, caught, family, hist>>

\* the msg_ids of the run
Tasks == 1..hist.tasks

\* ------------------------------------------------------- dicts and lists
Put(f, k, v) == [x \in (DOMAIN f) \cup {k} |-> IF x = k THEN v ELSE f[x]]
Del(f, k) == [x \in (DOMAIN f) \ {k} |-> f[x]]
RECURSIVE Ascending(_)
Ascending(S) ==
    IF S = {} THEN <<>>
    ELSE LET x == CHOOSE y \in S : \A z \in S : y <= z IN <<x>> \o Ascending(S \ {x})
\* the elements of S as the iteration order ord lists them
InOrder(S, ord) ==
    SelectSeq(ord, LAMBDA x : x \in S) \o Ascending(S \ {ord[k] : k \in 1..Len(ord)})
\* a registration that puts the engine at the tail of the list (told apart by C9)
InsertLast(lis, x) == Append(lis, x)
Insert0(lis, x) == <<x>> \o lis
Pop(lis, idx) == [k \in 1..(Len(lis) - 1) |-> IF k < idx THEN lis[k] ELSE lis[k + 1]]
\* list.index(x): the first position of x, 0 when x is not in the list (ValueError)
Index(lis, x) ==
    IF \E k \in 1..Len(lis) : lis[k] = x
    THEN CHOOSE k \in 1..Len(lis) : lis[k] = x /\ \A j \in 1..(k - 1) : lis[j] # x
    ELSE 0
Range(lis) == {lis[k] : k \in 1..Len(lis)}
SeqMin(lis) == CHOOSE v \in Range(lis) : \A w \in Range(lis) : v <= w

\* -------------------------------------------------------------- Dependency
Dep(ids, all, success, failure) ==
    [ids |-> ids, all |-> all, success |-> success, failure |-> failure]
\* MET = Dependency([])
MET == Dep({}, TRUE, TRUE, FALSE)

check(dep, done_ok, done_fail) ==
    IF dep.ids = {} THEN TRUE
    ELSE LET against == (IF dep.success THEN done_ok ELSE {})
                        \cup (IF dep.failure THEN done_fail ELSE {})
         IN IF dep.all THEN dep.ids \subseteq against
            ELSE dep.ids \cap against # {}

unreachable(dep, done_ok, done_fail) ==
    IF dep.ids = {} THEN FALSE
    ELSE LET against == (IF dep.success THEN {} ELSE done_ok)
                        \cup (IF dep.failure THEN {} ELSE done_fail)
         IN IF dep.all THEN dep.ids \cap against # {}
            ELSE dep.ids \subseteq against

\* ------------------------------------------------------------ load policy
leastload(lds) == Index(lds, SeqMin(lds))
scheme(lds) == leastload(lds)

\* ------------------------------------------------------------- exceptions
OK(s) == s.exc = "none"
Raise(s, e) == [s EXCEPT !.exc = e]

\* the state a call returns, named for the statements that follow the call
Bind(r, rest(_)) == rest(r)

Task(tg, after, follow, timeout) ==
    [targets |-> tg, after |-> after, follow |-> follow, timeout |-> timeout]

\* ------------------------------------------------- add_job / finish_job
add_job(s, idx) ==
    LET ld == [s.loads EXCEPT ![idx] = @ + 1]
    IN [s EXCEPT !.targets = Append(Pop(s.targets, idx), s.targets[idx]),
                 !.loads = Append(Pop(ld, idx), ld[idx])]

finish_job(s, idx) == [s EXCEPT !.loads[idx] = @ - 1]

\* ---------------------------------------------------------- submit_task
\* indices = <<>> stands for indices = None.  The entry appended to s.sent
\* records what the scheduler held at the moment of the send.
SentEntry(s, msg_id, tg, follow, target, idx) ==
    [msg_id |-> msg_id, engine |-> target, load |-> s.loads[idx],
     order |-> s.targets,
     header |-> IF msg_id \in DOMAIN s.headers THEN s.headers[msg_id]
                ELSE [targets |-> tg, after |-> MET, follow |-> follow,
                      retries |-> 0, timeout |-> 0],
     blacklist |-> IF msg_id \in DOMAIN s.blacklist THEN s.blacklist[msg_id] ELSE {},
     all_completed |-> s.all_completed, all_failed |-> s.all_failed,
     completed |-> IF target \in DOMAIN s.completed THEN s.completed[target] ELSE {},
     failed |-> IF target \in DOMAIN s.failed THEN s.failed[target] ELSE {}]

submit_task(s, msg_id, tg, follow, timeout, indices) ==
    LET lds == IF indices # <<>>
               THEN [k \in 1..Len(indices) |-> s.loads[indices[k]]]
               ELSE s.loads
    IN IF lds = <<>> THEN Raise(s, "ValueError")   \* min() of an empty list
       ELSE LET k == scheme(lds)
                idx == IF indices # <<>> THEN indices[k] ELSE k
                target == s.targets[idx]
                s1 == [s EXCEPT !.inflight[<<target, msg_id>>] = @ + 1,
                                !.sent = Append(@, SentEntry(s, msg_id, tg, follow, target, idx))]
                s2 == add_job(s1, idx)
            IN [s2 EXCEPT !.pending[target] = Put(@, msg_id, Task(tg, MET, follow, timeout))]

\* ----------------------------------------------------------- save_unmet
RECURSIVE graph_add(_, _, _)
graph_add(g, dep_ids, msg_id) ==
    IF dep_ids = {} THEN g
    ELSE LET d == CHOOSE x \in dep_ids : TRUE
             g1 == IF d \in DOMAIN g THEN g ELSE Put(g, d, {})
         IN graph_add([g1 EXCEPT ![d] = @ \cup {msg_id}], dep_ids \ {d}, msg_id)

save_unmet(s, msg_id, tg, after, follow, timeout) ==
    IF ~OK(s) THEN s
    ELSE [s EXCEPT !.depending = Put(@, msg_id, Task(tg, after, follow, timeout)),
                   !.graph = graph_add(@, (after.ids \cup follow.ids) \ s.all_done, msg_id)]

\* for mid in follow.union(after): if mid in self.graph: self.graph[mid].remove(msg_id)
RECURSIVE graph_remove(_, _, _)
graph_remove(s, mids, msg_id) ==
    IF ~OK(s) \/ mids = <<>> THEN s
    ELSE LET mid == Head(mids)
         IN IF mid \in DOMAIN s.graph
            THEN IF msg_id \in s.graph[mid]
                 THEN graph_remove([s EXCEPT !.graph[mid] = @ \ {msg_id}], Tail(mids), msg_id)
                 ELSE Raise(s, "KeyError")      \* set.remove of a missing element
            ELSE graph_remove(s, Tail(mids), msg_id)

\* ------------------------------ fail_unreachable, update_graph, maybe_run
RECURSIVE fail_unreachable(_, _, _), update_graph(_, _), update_jobs(_, _),
          maybe_run(_, _, _, _, _, _)

fail_unreachable(s, msg_id, why) ==
    IF ~OK(s) THEN s
    ELSE IF msg_id \notin DOMAIN s.depending THEN s     \* "already failed!"
    ELSE LET rec == s.depending[msg_id]
         IN Bind(graph_remove([s EXCEPT !.depending = Del(@, msg_id)],
                              InOrder(rec.follow.ids \cup rec.after.ids, s.ord), msg_id),
                 LAMBDA s2 :
                     IF ~OK(s2) THEN s2
                     ELSE update_graph([s2 EXCEPT !.all_done = @ \cup {msg_id},
                                                  !.all_failed = @ \cup {msg_id},
                                                  !.replies[msg_id] = Append(@, why)],
                                       msg_id))

\* the filter without its blacklist test (told apart by C2)
reaches_follow_blacklisted(s, i, tg, bl) ==
    /\ ~(s.hwm # 0 /\ s.loads[i] = s.hwm)
    /\ ~(tg # {} /\ s.targets[i] \notin tg)

\* the filter without its hwm test (told apart by C6)
reaches_follow_loaded(s, i, tg, bl) ==
    /\ s.targets[i] \notin bl
    /\ ~(tg # {} /\ s.targets[i] \notin tg)

\* the filter of maybe_run
reaches_follow(s, i, tg, bl) ==
    /\ ~(s.hwm # 0 /\ s.loads[i] = s.hwm)
    /\ s.targets[i] \notin bl
    /\ ~(tg # {} /\ s.targets[i] \notin tg)

can_run(s, i, tg, bl, follow) ==
    /\ reaches_follow(s, i, tg, bl)
    /\ check(follow, s.completed[s.targets[i]], s.failed[s.targets[i]])

can_run_raises(s, tg, bl) ==
    \E i \in 1..Len(s.targets) :
        /\ reaches_follow(s, i, tg, bl)
        /\ (s.targets[i] \notin DOMAIN s.completed \/ s.targets[i] \notin DOMAIN s.failed)

maybe_run(s, msg_id, tg, after, follow, timeout) ==
    IF ~OK(s) THEN s
    ELSE
    LET s0 == [s EXCEPT !.blacklist = IF msg_id \in DOMAIN @ THEN @ ELSE Put(@, msg_id, {}),
                        !.ret = FALSE, !.tgt = tg]
        bl == s0.blacklist[msg_id]
    IN IF follow.ids # {} \/ tg # {} \/ bl # {} \/ s.hwm # 0
       THEN IF can_run_raises(s0, tg, bl) THEN Raise(s0, "KeyError")
            ELSE
            LET indices == SelectSeq([i \in 1..Len(s0.targets) |-> i],
                                     LAMBDA i : can_run(s0, i, tg, bl, follow))
            IN IF indices = <<>>
               THEN LET relevant == (IF follow.success THEN s0.all_completed ELSE {})
                                     \cup (IF follow.failure THEN s0.all_failed ELSE {})
                        ms == follow.ids \cap relevant
                        tg2 == tg \ bl
                    IN IF follow.all /\ \E m \in ms : m \notin DOMAIN s0.destinations
                       THEN Raise(s0, "KeyError")
                       ELSE IF follow.all /\ Cardinality({s0.destinations[m] : m \in ms}) > 1
                       THEN [fail_unreachable(
                                 [s0 EXCEPT !.depending = Put(@, msg_id, Task(tg, after, follow, timeout))],
                                 msg_id, "ImpossibleDependency")
                             EXCEPT !.ret = FALSE, !.tgt = tg]
                       ELSE IF tg # {} /\ (tg2 = {} \/ tg2 \cap Range(s0.targets) = {})
                       THEN [fail_unreachable(
                                 [s0 EXCEPT !.depending = Put(@, msg_id, Task(tg2, after, follow, timeout))],
                                 msg_id, "ImpossibleDependency")
                             EXCEPT !.ret = FALSE, !.tgt = tg2]
                       ELSE [s0 EXCEPT !.ret = FALSE, !.tgt = tg2]
               ELSE [submit_task(s0, msg_id, tg, follow, timeout, indices) EXCEPT !.ret = TRUE]
       ELSE [submit_task(s0, msg_id, tg, follow, timeout, <<>>) EXCEPT !.ret = TRUE]

update_jobs(s, jobs) ==
    IF ~OK(s) \/ jobs = <<>> THEN s
    ELSE
    LET msg_id == Head(jobs)
    IN IF msg_id \notin DOMAIN s.depending THEN Raise(s, "KeyError")
       ELSE
       LET rec == s.depending[msg_id]
       IN IF \/ unreachable(rec.after, s.all_completed, s.all_failed)
             \/ unreachable(rec.follow, s.all_completed, s.all_failed)
          THEN update_jobs(fail_unreachable(s, msg_id, "ImpossibleDependency"), Tail(jobs))
          ELSE IF check(rec.after, s.all_completed, s.all_failed)
          THEN update_jobs(
                   Bind(maybe_run(s, msg_id, rec.targets, MET, rec.follow, rec.timeout),
                        LAMBDA r :
                            IF ~OK(r) THEN r
                            ELSE IF r.ret
                            THEN graph_remove([r EXCEPT !.depending = Del(@, msg_id)],
                                              InOrder(rec.follow.ids \cup rec.after.ids, s.ord),
                                              msg_id)
                            \* targets.difference_update(blacklist) acted on the set
                            \* the record in self.depending holds
                            ELSE IF msg_id \in DOMAIN r.depending
                            THEN [r EXCEPT !.depending[msg_id].targets = r.tgt]
                            ELSE r),
                   Tail(jobs))
          ELSE update_jobs(s, Tail(jobs))

update_graph(s, dep_id) ==
    IF ~OK(s) THEN s
    ELSE
    LET popped == IF dep_id \in DOMAIN s.graph THEN s.graph[dep_id] ELSE {}
        s1 == [s EXCEPT !.graph = Del(@, dep_id)]
        jobs == IF dep_id = None
                   \/ (s.hwm # 0 /\ \E i \in 1..Len(s.loads) : s.loads[i] = s.hwm - 1)
                THEN DOMAIN s1.depending
                ELSE popped
    IN update_jobs(s1, InOrder(jobs, s.ord))

\* -------------------------------------------------------- result handling
\* the bookkeeping with the failure branch taken for every reply (told apart by C7)
handle_result_both(s, engine, msg_id, status) ==
    LET s1 == [s EXCEPT !.replies[msg_id] = Append(@, status),
                        !.blacklist = Del(@, msg_id)]
    IN IF msg_id \notin DOMAIN s1.pending[engine] THEN Raise(s1, "KeyError")
       ELSE IF engine \notin DOMAIN s1.completed \/ engine \notin DOMAIN s1.failed
       THEN Raise([s1 EXCEPT !.pending[engine] = Del(@, msg_id)], "KeyError")
       ELSE update_graph(
                [s1 EXCEPT !.pending[engine] = Del(@, msg_id),
                           !.completed[engine] = IF status = "ok" THEN @ \cup {msg_id} ELSE @,
                           !.all_completed = IF status = "ok" THEN @ \cup {msg_id} ELSE @,
                           !.failed[engine] = @ \cup {msg_id},
                           !.all_failed = @ \cup {msg_id},
                           !.all_done = @ \cup {msg_id},
                           !.destinations = Put(@, msg_id, engine)],
                msg_id)

handle_result(s, engine, msg_id, status) ==
    LET success == (status = "ok")
        \* relay to the client first
        s1 == [s EXCEPT !.replies[msg_id] = Append(@, status),
                        !.blacklist = Del(@, msg_id)]
    IN IF msg_id \notin DOMAIN s1.pending[engine] THEN Raise(s1, "KeyError")
       ELSE
       LET s2 == [s1 EXCEPT !.pending[engine] = Del(@, msg_id)]
           done == IF success THEN s2.completed ELSE s2.failed
       IN IF engine \notin DOMAIN done THEN Raise(s2, "KeyError")
          ELSE
          LET s3 == IF success
                    THEN [s2 EXCEPT !.completed[engine] = @ \cup {msg_id},
                                    !.all_completed = @ \cup {msg_id}]
                    ELSE [s2 EXCEPT !.failed[engine] = @ \cup {msg_id},
                                    !.all_failed = @ \cup {msg_id}]
              s4 == [s3 EXCEPT !.all_done = @ \cup {msg_id},
                               !.destinations = Put(@, msg_id, engine)]
          IN update_graph(s4, msg_id)

handle_unmet_dependency(s, engine, msg_id) ==
    LET s1 == [s EXCEPT !.blacklist =
                   Put(@, msg_id, (IF msg_id \in DOMAIN @ THEN @[msg_id] ELSE {}) \cup {engine})]
    IN IF msg_id \notin DOMAIN s1.pending[engine] THEN Raise(s1, "KeyError")
       ELSE
       LET args == s1.pending[engine][msg_id]
           s2 == [s1 EXCEPT !.pending[engine] = Del(@, msg_id)]
       IN Bind(IF s2.blacklist[msg_id] = args.targets
               THEN fail_unreachable([s2 EXCEPT !.depending = Put(@, msg_id, args)],
                                     msg_id, "ImpossibleDependency")
               ELSE Bind(maybe_run(s2, msg_id, args.targets, args.after,
                                   args.follow, args.timeout),
                         LAMBDA r :
                             IF OK(r) /\ ~r.ret /\ msg_id \notin r.all_failed
                             THEN save_unmet(r, msg_id, r.tgt, args.after, args.follow,
                                             args.timeout)
                             ELSE r),
               LAMBDA s3 :
                   IF /\ OK(s3) /\ s3.hwm # 0
                      /\ Index(s3.targets, engine) # 0
                      /\ s3.loads[Index(s3.targets, engine)] = s3.hwm - 1
                   THEN update_graph(s3, None)
                   ELSE s3)

\* status "died" is the fake error reply built by handle_stranded_tasks
dispatch_result(s, engine, msg_id, status, dependencies_met) ==
    IF ~OK(s) THEN s
    ELSE
    LET idx == Index(s.targets, engine)
        s1 == IF idx # 0 THEN finish_job(s, idx) ELSE s  \* skip load-update for dead engines
    IN IF dependencies_met
       THEN IF msg_id \notin DOMAIN s1.retries THEN Raise(s1, "KeyError")
            ELSE IF status # "ok" /\ s1.retries[msg_id] > 0
            THEN handle_unmet_dependency([s1 EXCEPT !.retries[msg_id] = @ - 1], engine, msg_id)
            ELSE handle_result([s1 EXCEPT !.retries = Del(@, msg_id)], engine, msg_id, status)
       ELSE handle_unmet_dependency(s1, engine, msg_id)

\* engine_stream.flush(): the replies already received are handled now
RECURSIVE flush_results(_, _)
flush_results(s, msgs) ==
    IF ~OK(s) \/ msgs = <<>> THEN s
    ELSE LET m == Head(msgs)
         IN flush_results(
                dispatch_result([s EXCEPT !.inflight[<<m.engine, m.msg_id>>] = @ - 1],
                                m.engine, m.msg_id, m.status, m.dependencies_met),
                Tail(msgs))

\* ------------------------------------------- registration, unregistration
register_engine(s, uid) ==
    LET s1 == [s EXCEPT !.targets = Insert0(@, uid),
                        !.loads = Insert0(@, 0),
                        !.completed = Put(@, uid, {}),
                        !.failed = Put(@, uid, {}),
                        !.pending = Put(@, uid, <<>>)]
        s2 == IF Len(s1.targets) = 1 THEN [s1 EXCEPT !.receiving = TRUE] ELSE s1
    IN update_graph(s2, None)

unregister_engine(s, uid, flushed) ==
    Bind(flush_results(IF Len(s.targets) = 1 THEN [s EXCEPT !.receiving = FALSE] ELSE s,
                       flushed),
         LAMBDA s2 :
             IF ~OK(s2) THEN s2
             ELSE IF Index(s2.targets, uid) = 0 THEN Raise(s2, "ValueError")
             ELSE
             LET idx == Index(s2.targets, uid)
                 s3 == [s2 EXCEPT !.targets = Pop(@, idx), !.loads = Pop(@, idx)]
             IN IF uid \notin DOMAIN s3.pending THEN Raise(s3, "KeyError")
                ELSE IF DOMAIN s3.pending[uid] # {}
                THEN [s3 EXCEPT !.stranded[uid] = @ + 1]
                ELSE IF uid \notin DOMAIN s3.completed THEN Raise(s3, "KeyError")
                ELSE IF uid \notin DOMAIN s3.failed
                THEN Raise([s3 EXCEPT !.completed = Del(@, uid)], "KeyError")
                ELSE [s3 EXCEPT !.completed = Del(@, uid), !.failed = Del(@, uid)])

\* dispatch_notification catches every exception of its handler
dispatch_notification(s, n) ==
    Bind(IF n.msg_type = "registration_notification"
         THEN register_engine(s, n.queue)
         ELSE unregister_engine(s, n.queue, n.flushed),
         LAMBDA r : [r EXCEPT !.exc = "none", !.caught = IF OK(r) THEN s.caught ELSE r.exc])

RECURSIVE flush_notifications(_, _)
flush_notifications(s, ns) ==
    IF ns = <<>> THEN s
    ELSE flush_notifications(dispatch_notification(s, Head(ns)), Tail(ns))

RECURSIVE stranded_jobs(_, _, _)
stranded_jobs(s, engine, lost) ==
    IF ~OK(s) \/ lost = <<>> THEN s
    ELSE IF Head(lost) \notin DOMAIN s.pending[engine]
    THEN stranded_jobs(s, engine, Tail(lost))       \* prevent double-handling
    ELSE stranded_jobs(dispatch_result(s, engine, Head(lost), "died", TRUE), engine, Tail(lost))

handle_stranded_tasks(s, engine) ==
    Bind(stranded_jobs(s, engine, InOrder(DOMAIN s.pending[engine], s.ord)),
         LAMBDA s1 :
             IF ~OK(s1) THEN s1
             ELSE IF engine \notin DOMAIN s1.completed THEN Raise(s1, "KeyError")
             ELSE IF engine \notin DOMAIN s1.failed
             THEN Raise([s1 EXCEPT !.completed = Del(@, engine)], "KeyError")
             ELSE [s1 EXCEPT !.completed = Del(@, engine), !.failed = Del(@, engine)])

\* ------------------------------------------------------- job submission
\* h: the header, [targets, after, follow, retries, timeout]; timeout 0 is None.
\* flushed: the notifications notifier_stream.flush() hands to their handler.
\* the reduction taken against the submitted ids, not the finished ones (told
\* apart by C1)
reduce_after_submitted(s, after) ==
    IF after.ids = {} THEN MET
    ELSE LET a1 == IF after.all THEN [after EXCEPT !.ids = @ \ s.all_ids] ELSE after
         IN IF check(a1, s.all_completed, s.all_failed) THEN MET ELSE a1

reduce_after(s, after) ==
    IF after.ids = {} THEN MET
    ELSE LET a1 == IF after.all /\ after.success
                   THEN [after EXCEPT !.ids = @ \ s.all_completed] ELSE after
             a2 == IF a1.all /\ a1.failure
                   THEN [a1 EXCEPT !.ids = @ \ s.all_failed] ELSE a1
         IN IF check(a2, s.all_completed, s.all_failed) THEN MET ELSE a2

invalid(s, msg_id, dep) == dep.ids # {} /\ (msg_id \in dep.ids \/ dep.ids \ s.all_ids # {})

submission(s0, msg_id, h) ==
    LET s1 == [s0 EXCEPT !.all_ids = @ \cup {msg_id},
                         !.retries = Put(@, msg_id, h.retries),
                         !.headers = Put(@, msg_id, h)]
        after == reduce_after(s1, h.after)
        follow == h.follow
        timeout == IF h.timeout # 0 THEN s1.now + h.timeout ELSE 0
        held == [s1 EXCEPT !.depending = Put(@, msg_id, Task(h.targets, after, follow, timeout))]
        ac == s1.all_completed
        af == s1.all_failed
    IN IF invalid(s1, msg_id, after)
       THEN fail_unreachable(held, msg_id, "InvalidDependency")
       ELSE IF after.ids # {} /\ unreachable(after, ac, af)
       THEN fail_unreachable(held, msg_id, "ImpossibleDependency")
       ELSE IF invalid(s1, msg_id, follow)
       THEN fail_unreachable(held, msg_id, "InvalidDependency")
       ELSE IF follow.ids # {} /\ unreachable(follow, ac, af)
       THEN fail_unreachable(held, msg_id, "ImpossibleDependency")
       ELSE IF check(after, ac, af)
       THEN Bind(maybe_run(s1, msg_id, h.targets, after, follow, timeout),
                 LAMBDA r :
                     IF OK(r) /\ ~r.ret /\ msg_id \notin r.all_failed
                     THEN save_unmet(r, msg_id, r.tgt, after, follow, timeout)
                     ELSE r)
       ELSE save_unmet(s1, msg_id, h.targets, after, follow, timeout)

dispatch_submission(s, flushed, msg_id, h) ==
    submission(flush_notifications(s, flushed), msg_id, h)

\* --------------------------------------------------------- audit_timeouts
RECURSIVE audit_jobs(_, _)
audit_jobs(s, ids) ==
    IF ~OK(s) \/ ids = <<>> THEN s
    ELSE LET msg_id == Head(ids)
         IN IF msg_id \in DOMAIN s.depending
               /\ s.depending[msg_id].timeout # 0
               /\ s.depending[msg_id].timeout < s.now
            THEN audit_jobs(fail_unreachable(s, msg_id, "TaskTimeout"), Tail(ids))
            ELSE audit_jobs(s, Tail(ids))

audit_timeouts(s) == audit_jobs(s, InOrder(DOMAIN s.depending, s.ord))

\* ------------------------------------------------------------ the inputs
Perms(S) == {o \in [1..Cardinality(S) -> S] : \A i, j \in 1..Cardinality(S) : o[i] = o[j] => i = j}

\* The orders in which a handler may iterate over a set or over a dict's keys:
\* every order of the ids a loop of the handler can meet.
Orders(R) == Perms(R)

DepIds(rec) == rec.after.ids \cup rec.follow.ids

Iterated(extra) ==
    extra \cup DOMAIN depending
    \cup UNION {DepIds(depending[m]) : m \in DOMAIN depending}
    \cup UNION {graph[d] : d \in DOMAIN graph}
    \cup UNION {DOMAIN pending[e] : e \in DOMAIN pending}
    \cup UNION {UNION {DepIds(pending[e][m]) : m \in DOMAIN pending[e]} : e \in DOMAIN pending}

Header(tg, after, follow, rt, timeout) ==
    [targets |-> tg, after |-> after, follow |-> follow, retries |-> rt, timeout |-> timeout]

\* the dependencies a header may carry: up to MaxDepIds ids of submitted, own or
\* not yet submitted tasks, on all or any of them, on success or on failure
DepInputs ==
    {Dep(ids, all, sf[1], sf[2]) :
        ids \in {S \in SUBSET Tasks : S # {} /\ Cardinality(S) <= MaxDepIds},
        all \in BOOLEAN,
        sf \in {<<TRUE, FALSE>>, <<FALSE, TRUE>>}}

\* timeouts: none, one that the next audit finds expired, one that it does not
Timeouts == {0, AuditPeriod - 1, AuditPeriod + 1}

\* The submissions of one run come from one family of headers.
Families == {"after", "follow", "targets", "retries", "timeout"}
\* narrower families: tasks that wait on any of up to MaxDepIds others; tasks
\* with no dependencies, no targets and no retries; tasks with a deadline that
\* wait on the failure of another; tasks bound to one engine that follow any of
\* up to MaxDepIds others, among tasks that wait on one other; tasks without
\* targets whose after and follow name tasks submitted before them
Narrow == {"cascade", "plain", "deadline", "miss", "earlier"}

HeaderInputs(fam) ==
    CASE fam = "after" ->
            {Header(tg, a, MET, 0, 0) : tg \in {{}, {MaxEngines}}, a \in DepInputs \cup {MET}}
      [] fam = "follow" ->
            {Header({}, MET, f, 0, 0) : f \in DepInputs \cup {MET}}
            \cup {Header({e}, MET, MET, 0, 0) : e \in Engines}
      [] fam = "targets" ->
            {Header(tg, MET, MET, rt, 0) : tg \in SUBSET Engines, rt \in 0..MaxRetries}
      [] fam = "retries" ->
            {Header({}, MET, MET, rt, t) : rt \in 0..MaxRetries, t \in {0, AuditPeriod - 1}}
      [] fam = "timeout" ->
            {Header({}, a, MET, 0, t) :
                a \in {MET} \cup {Dep({i}, TRUE, TRUE, FALSE) : i \in Tasks}, t \in Timeouts}
      [] fam = "cascade" ->
            {Header({}, a, MET, 0, 0) : a \in {d \in DepInputs : ~d.all} \cup {MET}}
      [] fam = "plain" ->
            {Header({}, MET, MET, 0, 0)}
      [] fam = "miss" ->
            {Header({}, a, MET, 0, 0) :
                a \in {MET} \cup {Dep({i}, TRUE, TRUE, FALSE) : i \in Tasks}}
            \cup {Header({e}, MET, f, 0, 0) :
                      e \in Engines, f \in {d \in DepInputs : ~d.all /\ d.success}}
      [] fam = "deadline" ->
            {Header({}, a, MET, 0, t) :
                a \in {MET} \cup {Dep({i}, TRUE, FALSE, TRUE) : i \in Tasks},
                t \in {0, AuditPeriod - 1}}
      [] fam = "earlier" ->
            LET deps == {d \in DepInputs : d.ids \subseteq all_ids} \cup {MET}
            IN {Header({}, a, f, 0, 0) : a \in deps, f \in deps}

\* the replies an engine may give to a task it was sent
Answers == {<<"ok", TRUE>>, <<"error", TRUE>>, <<"error", FALSE>>}

Reply(e, m, a) == [engine |-> e, msg_id |-> m, status |-> a[1], dependencies_met |-> a[2]]

\* engine_stream.flush() in _unregister_engine: up to n replies that wait on the
\* engine stream, of different dispatches
Flushable(n) ==
    LET waiting == {q \in Engines \X Tasks : inflight[q] > 0}
    IN UNION {{[i \in 1..k |-> Reply(f[i][1][1], f[i][1][2], f[i][2])] :
                  f \in {g \in [1..k -> waiting \X Answers] :
                             \A i, j \in 1..k : g[i][1] = g[j][1] => i = j}} :
              k \in 0..n}

Notification(type, uid, flushed) == [msg_type |-> type, queue |-> uid, flushed |-> flushed]

\* engine idents are opaque: the engines first appear in the order 1, 2, ...
Known == DOMAIN pending
Fresh == {e \in Engines : e \notin Known /\ \A d \in Engines : d < e => d \in Known}
Registrable == Fresh
\* an engine that left and registers again under the ident it had
Returning == Known \ Range(targets)
Unregistrable == Known \cup Fresh

\* notifier_stream.flush() in dispatch_submission.  A notification handled there
\* acts as it does when it is handled on its own just before the submission,
\* except when it is an unregistration that leaves the submission facing the
\* scheduler after stop_receiving(): those are the flushes told apart here.
Notifications(n) ==
    {<<>>} \cup
    IF n < 1 \/ Len(targets) # 1 THEN {}
    ELSE {<<Notification("unregistration_notification", e, <<>>)>> : e \in Unregistrable}

\* ------------------------------------------------------------- the state
Cur(ord) ==
    [targets |-> targets, loads |-> loads, pending |-> pending, completed |-> completed,
     failed |-> failed, depending |-> depending, graph |-> graph, retries |-> retries,
     blacklist |-> blacklist, destinations |-> destinations,
     all_completed |-> all_completed, all_failed |-> all_failed, all_done |-> all_done,
     all_ids |-> all_ids, receiving |-> receiving, hwm |-> hwm, now |-> now,
     stranded |-> stranded, inflight |-> inflight, replies |-> replies,
     sent |-> <<>>, headers |-> headers, exc |-> "none", caught |-> "none",
     ord |-> ord, ret |-> FALSE, tgt |-> {}]

Held(s) == DOMAIN s.depending \cup UNION {DOMAIN s.pending[e] : e \in DOMAIN s.pending}

Event(op, e, m, st) == [op |-> op, engine |-> e, msg_id |-> m, status |-> st]

Becomes(s, events) ==
    /\ targets' = s.targets /\ loads' = s.loads /\ pending' = s.pending
    /\ completed' = s.completed /\ failed' = s.failed /\ depending' = s.depending
    /\ graph' = s.graph /\ retries' = s.retries /\ blacklist' = s.blacklist
    /\ destinations' = s.destinations /\ all_completed' = s.all_completed
    /\ all_failed' = s.all_failed /\ all_done' = s.all_done /\ all_ids' = s.all_ids
    /\ receiving' = s.receiving /\ hwm' = s.hwm /\ now' = s.now
    /\ stranded' = s.stranded /\ inflight' = s.inflight /\ replies' = s.replies
    /\ sent' = s.sent /\ exc' = s.exc /\ caught' = s.caught
    /\ headers' = [m \in (DOMAIN s.headers) \cap Held(s) |-> s.headers[m]]
    /\ family' = family
    /\ hist' = [hist EXCEPT !.n = @ + Len(events),
                            !.ev = IF hist.on THEN @ \o events ELSE @]

Room(n) == hist.n + n <= hist.max

InitWith(fams, on, max, tasks) ==
    /\ hist = [on |-> on, n |-> 0, max |-> max, tasks |-> tasks, ev |-> <<>>]
    /\ family \in fams
    /\ targets = <<>> /\ loads = <<>> /\ pending = <<>> /\ completed = <<>>
    /\ failed = <<>> /\ depending = <<>> /\ graph = <<>> /\ retries = <<>>
    /\ blacklist = <<>> /\ destinations = <<>>
    /\ all_completed = {} /\ all_failed = {} /\ all_done = {} /\ all_ids = {}
    /\ receiving = FALSE
    /\ hwm \in 0..MaxHwm
    /\ now = 0
    /\ stranded = [e \in Engines |-> 0]
    /\ inflight = [p \in Engines \X Tasks |-> 0]
    /\ replies = [m \in Tasks |-> <<>>]
    /\ sent = <<>> /\ headers = <<>> /\ exc = "none" /\ caught = "none"

Init == InitWith(Families, FALSE, MaxEvents, MaxTasks)

\* ----------------------------------------------------------- the handlers
NotificationEvents(flushed) ==
    [k \in 1..Len(flushed) |->
        Event(IF flushed[k].msg_type = "registration_notification"
              THEN "register" ELSE "unregister", flushed[k].queue, 0, "")]

ResultEvents(flushed) ==
    [k \in 1..Len(flushed) |->
        Event("result", flushed[k].engine, flushed[k].msg_id,
              IF flushed[k].dependencies_met THEN flushed[k].status ELSE "unmet")]

Register ==
    /\ Room(1)
    /\ \E uid \in Registrable, ord \in Orders(Iterated({})) :
       \E s \in {dispatch_notification(Cur(ord),
                     Notification("registration_notification", uid, <<>>))} :
           Becomes(s, <<Event("register", uid, 0, "")>>)

\* an engine that left registers again under the ident it had
Reregister ==
    /\ Room(1)
    /\ \E uid \in Returning, ord \in Orders(Iterated({})) :
       \E s \in {dispatch_notification(Cur(ord),
                     Notification("registration_notification", uid, <<>>))} :
           Becomes(s, <<Event("register", uid, 0, "")>>)

Unregister ==
    /\ Room(1)
    /\ \E uid \in Unregistrable, flushed \in Flushable(MaxFlush), ord \in Orders(Iterated({})) :
       /\ Room(1 + Len(flushed))
       /\ \E s \in {dispatch_notification(Cur(ord),
                        Notification("unregistration_notification", uid, flushed))} :
              Becomes(s, ResultEvents(flushed) \o <<Event("unregister", uid, 0, "")>>)

Submit ==
    /\ receiving
    /\ Cardinality(all_ids) < hist.tasks
    /\ Room(1)
    /\ \E h \in HeaderInputs(family), flushed \in Notifications(MaxFlush) :
       /\ Room(1 + Len(flushed))
       /\ LET msg_id == Cardinality(all_ids) + 1
          IN \E ord \in Orders(Iterated({msg_id} \cup DepIds(h))) :
             \E s \in {dispatch_submission(Cur(ord), flushed, msg_id, h)} :
                 Becomes(s, NotificationEvents(flushed) \o <<Event("submit", 0, msg_id, "")>>)

Result ==
    /\ Room(1)
    /\ \E p \in {q \in Engines \X Tasks : inflight[q] > 0}, a \in Answers,
          ord \in Orders(Iterated({})) :
       \E s \in {dispatch_result([Cur(ord) EXCEPT !.inflight[p] = @ - 1],
                                 p[1], p[2], a[1], a[2])} :
           Becomes(s, <<Event("result", p[1], p[2], IF a[2] THEN a[1] ELSE "unmet")>>)

Stranded ==
    /\ Room(1)
    /\ \E e \in {d \in Engines : stranded[d] > 0}, ord \in Orders(Iterated({})) :
       \E s \in {handle_stranded_tasks([Cur(ord) EXCEPT !.stranded[e] = @ - 1], e)} :
           Becomes(s, <<Event("stranded", e, 0, "")>>)

\* the periodic callback: AuditPeriod seconds have passed since the last audit
\* (the clock is left alone while no waiting task has a deadline to compare it with)
Deadlines == \E m \in DOMAIN depending : depending[m].timeout # 0
\* datetime.now() at the next run of the auditor
AuditTime == IF now < MaxTime /\ Deadlines THEN now + AuditPeriod ELSE now
Audit ==
    /\ Room(1)
    /\ \E ord \in Orders(Iterated({})) :
       \E s \in {audit_timeouts([Cur(ord) EXCEPT !.now = AuditTime])} :
           Becomes(s, <<Event("audit", 0, 0, "")>>)

Next == Register \/ Reregister \/ Unregister \/ Submit \/ Result \/ Stranded \/ Audit

Spec == Init /\ [][Next]_vars

\* runs of MaxManyTasks tasks that wait on one another, with no limit on the
\* engines' loads
InitMany == InitWith({"cascade"}, FALSE, MaxManyEvents, MaxManyTasks) /\ hwm = 0
SpecMany == InitMany /\ [][Next]_vars

\* runs of MaxLongEvents events, of tasks without dependencies
InitLong == InitWith({"plain"}, FALSE, MaxLongEvents, MaxTasks)
SpecLong == InitLong /\ [][Next]_vars

\* runs of tasks bound to one engine that follow others
InitMiss == InitWith({"miss"}, FALSE, MaxEvents, MaxTasks)
SpecMiss == InitMiss /\ [][Next]_vars

\* runs of tasks with deadlines that wait on failures
InitAudit == InitWith({"deadline"}, FALSE, MaxEvents, MaxTasks)
SpecAudit == InitAudit /\ [][Next]_vars

\* runs in which no engine leaves and every engine answers each task it was
\* sent with status 'ok' and its dependencies met: every registration,
\* submission and reply of such a run fits in MaxLiveEvents events
MaxLiveEvents == MaxEngines + 2 * MaxTasks + 2
InitLive == InitWith({"earlier"}, FALSE, MaxLiveEvents, MaxTasks)

\* a submission that finds no notification waiting on the notifier stream
Submission ==
    /\ receiving
    /\ Cardinality(all_ids) < hist.tasks
    /\ Room(1)
    /\ \E h \in HeaderInputs(family) :
       LET msg_id == Cardinality(all_ids) + 1
       IN \E ord \in Orders(Iterated({msg_id} \cup DepIds(h))) :
          \E s \in {dispatch_submission(Cur(ord), <<>>, msg_id, h)} :
              Becomes(s, <<Event("submit", 0, msg_id, "")>>)

\* an engine answers a task it was sent: status 'ok', dependencies met
OkResult ==
    /\ Room(1)
    /\ \E p \in {q \in Engines \X Tasks : inflight[q] > 0}, ord \in Orders(Iterated({})) :
       \E s \in {dispatch_result([Cur(ord) EXCEPT !.inflight[p] = @ - 1],
                                 p[1], p[2], "ok", TRUE)} :
           Becomes(s, <<Event("result", p[1], p[2], "ok")>>)

NextLive == Register \/ Submission \/ OkResult

\* a reply is waiting on the engine stream: OkResult is enabled
AnswerDue == Room(1) /\ \E q \in Engines \X Tasks : inflight[q] > 0

\* the steps of OkResult among those of NextLive: the one event that registers
\* no engine (apart from their order, targets is as it was) and adds no msg_id
\* to all_ids
Answering ==
    /\ AnswerDue
    /\ hist' = [hist EXCEPT !.n = @ + 1]
    /\ all_ids' = all_ids
    /\ targets' \in Perms(Range(targets))
AnsweringIsOkResult == [][Answering <=> OkResult]_vars

\* every engine eventually answers what it was sent
SpecLive == InitLive /\ [][NextLive]_vars /\ WF_hist(Answering)

\* ================================================================= claims
PendingOn(e) == IF e \in DOMAIN pending THEN DOMAIN pending[e] ELSE {}
AllPending == UNION {PendingOn(e) : e \in Engines}
Sent == Range(sent)

\* C1: a task is sent to an engine only if the `after` of its submission header
\* is satisfied, at the moment of the send, against all_completed / all_failed;
\* a held task whose `after` is not met is in depending and on no engine.
C1_AfterMetAtDispatch ==
    /\ \A d \in Sent : check(d.header.after, d.all_completed, d.all_failed)
    /\ \A m \in DOMAIN headers :
           ~check(headers[m].after, all_completed, all_failed)
               => m \in DOMAIN depending /\ m \notin AllPending

C1_Witness ==
    \E d \in Sent : d.header.after.ids # {} /\ d.msg_id \in PendingOn(d.engine)

\* C2: every send goes to an engine that is registered at that moment, is not in
\* the task's blacklist, is one of the header's targets when there are any, and
\* whose own completed / failed sets satisfy the task's `follow`.
C2_DispatchAdmissible ==
    \A d \in Sent :
        /\ d.engine \in Range(d.order)
        /\ d.engine \notin d.blacklist
        /\ d.header.targets # {} => d.engine \in d.header.targets
        /\ check(d.header.follow, d.completed, d.failed)

C2_Witness ==
    \E d \in Sent : d.blacklist # {} /\ d.header.targets # {}

\* C3: a task that ended in failure was sent exactly one reply.
C3_OneReplyPerFailure ==
    \A m \in all_failed : Len(replies[m]) = 1

\* C4: every submitted msg_id is in exactly one of depending, pending[e] for
\* exactly one engine e, all_done.
Places(m) ==
    (IF m \in DOMAIN depending THEN 1 ELSE 0)
    + Cardinality({e \in Engines : m \in PendingOn(e)})
    + (IF m \in all_done THEN 1 ELSE 0)

C4_ExactlyOnePlace ==
    \A m \in all_ids : Places(m) = 1

\* C5: targets and loads have equal length and loads[i] is the number of tasks
\* in pending[targets[i]].
C5_LoadsMatchPending ==
    /\ Len(targets) = Len(loads)
    /\ \A i \in 1..Len(targets) : loads[i] = Cardinality(PendingOn(targets[i]))

C7_DonePartition ==
    /\ all_done = all_completed \cup all_failed
    /\ all_completed \cap all_failed = {}

C7_Witness ==
    all_completed # {} /\ all_failed # {}

\* C8: no key of graph is in all_done and every waiter listed in a graph set
\* is in depending.
C8_GraphClean ==
    \A d \in DOMAIN graph : d \notin all_done /\ graph[d] \subseteq DOMAIN depending

\* C9: the scheduler has seen exactly the registration of engine 1, then of
\* engine 2, then the submission of task 1 with no dependencies and no targets.
\* (Engines first appear in the order 1, 2; three events that leave two engines
\* registered and end in a send are those three.)
C9_TwoEnginesOneTask ==
    /\ hist.n = 3 /\ exc = "none"
    /\ Len(targets) = 2 /\ Len(sent) = 1
    /\ sent[1].msg_id = 1
    /\ sent[1].header.targets = {}
    /\ sent[1].header.after = MET /\ sent[1].header.follow = MET

\* C9 as stated: the task goes to engine 1, the first registered, which is then
\* at the tail of the engine list, with loads <<0, 1>>.
C9_RoutedToFirstRegistered ==
    C9_TwoEnginesOneTask =>
        sent[1].engine = 1 /\ targets[Len(targets)] = 1 /\ loads = <<0, 1>>

\* C9 amended: the task goes to engine 2, the last registered (a registration
\* puts the engine at the head of the list and leastload takes the first engine
\* of least load); engine 2 is then at the tail, with loads <<0, 1>>.
C9_RoutedToLastRegistered ==
    C9_TwoEnginesOneTask =>
        /\ sent[1].order = <<2, 1>>
        /\ sent[1].engine = 2
        /\ targets = <<1, 2>>
        /\ loads = <<0, 1>>

C9_Witness ==
    C9_TwoEnginesOneTask /\ 1 \in PendingOn(2)

\* C10: submissions are accepted if and only if an engine is registered.
C10_ReceivingIffEngines ==
    receiving <=> Len(targets) > 0

\* ------------------------------------------------- handlers, run from a state
\* The state a handler ends in when the event loop runs it from the current
\* state, for every choice of the orders its loops take.
Failure(reply) == reply # "ok"
Last(q) == q[Len(q)]
Replied(s, m) == Len(s.replies[m]) - Len(replies[m])

\* C11: when handle_stranded_tasks runs for an engine that is not registered,
\* every task in pending[engine] is sent a failure reply and is in all_failed,
\* and pending[engine] holds none of them when the handler ends.
C11_StrandedAllFail ==
    \A e \in {d \in Engines : stranded[d] > 0 /\ d \notin Range(targets)} :
        \A ord \in Orders(Iterated({})) :
            \A s \in {handle_stranded_tasks([Cur(ord) EXCEPT !.stranded[e] = @ - 1], e)} :
                \A m \in PendingOn(e) :
                    /\ m \in s.all_failed
                    /\ Replied(s, m) = 1 /\ Failure(Last(s.replies[m]))
                    /\ m \notin DOMAIN s.pending[e]

\* the replies that wait for dispatch_result, for tasks their engine still holds
Waiting == {q \in Engines \X Tasks : inflight[q] > 0}
Answerable == {q \in Waiting : q[2] \in PendingOn(q[1]) /\ q[2] \in DOMAIN retries}

\* dispatch_result for a reply with status 'error' and dependencies_met
ErrorReply(q, ord) ==
    dispatch_result([Cur(ord) EXCEPT !.inflight[q] = @ - 1], q[1], q[2], "error", TRUE)

BlacklistOf(s, m) == IF m \in DOMAIN s.blacklist THEN s.blacklist[m] ELSE {}
PlacedOn(s, m) == {e \in DOMAIN s.pending : m \in DOMAIN s.pending[e]}

\* C12: an error reply for a task with retries left decrements the retry
\* count by one, relays nothing to the client, retries the task and does not
\* add the failing engine to the task's blacklist; with no retries left the
\* error reply is relayed to the client and the task enters all_failed.
C12_RetryKeepsBlacklist ==
    \A q \in Answerable : \A ord \in Orders(Iterated({})) :
        \A s \in {ErrorReply(q, ord)} :
            /\ retries[q[2]] > 0 =>
                   /\ s.retries[q[2]] = retries[q[2]] - 1
                   /\ Replied(s, q[2]) = 0
                   /\ q[2] \in DOMAIN s.depending \/ PlacedOn(s, q[2]) # {}
                   /\ BlacklistOf(s, q[2]) = BlacklistOf(Cur(ord), q[2])
            /\ retries[q[2]] = 0 =>
                   /\ Replied(s, q[2]) = 1 /\ Last(s.replies[q[2]]) = "error"
                   /\ q[2] \in s.all_failed


\* a header whose after or follow ids name the task itself or an id that was
\* never submitted, as the header arrives
Listed(h) == h.after.ids \cup h.follow.ids
InvalidHeader(msg_id, h) == msg_id \in Listed(h) \/ Listed(h) \ (all_ids \cup {msg_id}) # {}

\* the id the next submission carries
NextId == Cardinality(all_ids) + 1

\* C13: a submission whose after or follow ids contain its own msg_id or an id
\* that was never submitted gets exactly one reply from dispatch_submission, an
\* InvalidDependency failure, is in all_failed, and is neither sent to an
\* engine nor left in depending, whatever the state of the other ids listed.
C13_InvalidRejected ==
    receiving /\ Cardinality(all_ids) < hist.tasks =>
        \A h \in {g \in HeaderInputs(family) : InvalidHeader(NextId, g)} :
            \A ord \in Orders(Iterated({NextId} \cup DepIds(h))) :
                \A s \in {dispatch_submission(Cur(ord), <<>>, NextId, h)} :
                    /\ Replied(s, NextId) = 1
                    /\ Last(s.replies[NextId]) = "InvalidDependency"
                    /\ NextId \in s.all_failed
                    /\ PlacedOn(s, NextId) = {}
                    /\ NextId \notin DOMAIN s.depending

\* the state invariants of a record s of the scheduler's attributes
LoadsMatch(s) ==
    /\ Len(s.targets) = Len(s.loads)
    /\ \A i \in 1..Len(s.targets) :
           /\ s.targets[i] \in DOMAIN s.pending
           /\ s.loads[i] = Cardinality(DOMAIN s.pending[s.targets[i]])
DoneReleased(s) == s.all_done \cap Held(s) = {}
DoneDisjoint(s) == s.all_completed \cap s.all_failed = {}
Sound(s) == LoadsMatch(s) /\ DoneReleased(s) /\ DoneDisjoint(s)

\* C14: when the state satisfies loads[i] = |pending[targets[i]]|, all_done
\* disjoint from depending and the pending maps, all_completed disjoint from
\* all_failed, a second submission of a msg_id that was already submitted
\* (waiting, pending on an engine, or finished) leaves the three satisfied.
C14_ResubmitKeepsInvariants ==
    receiving /\ Sound(Cur(<<>>)) =>
        \A msg_id \in all_ids : \A h \in HeaderInputs(family) :
            \A ord \in Orders(Iterated({msg_id} \cup DepIds(h))) :
                \A s \in {dispatch_submission(Cur(ord), <<>>, msg_id, h)} : Sound(s)

\* update_graph(None) called from the event loop, the loops taking the order ord
Rescan(s, ord) == update_graph([s EXCEPT !.ord = ord, !.exc = "none"], None)

\* the ids sent to an engine by the handler that ended in s
Dispatched(s) == {s.sent[k].msg_id : k \in 1..Len(s.sent)}

SameQueues(s, t) ==
    /\ s.graph = t.graph /\ s.depending = t.depending /\ s.pending = t.pending
    /\ s.loads = t.loads /\ s.targets = t.targets

\* C15: when update_graph(None) runs twice in succession from a state between
\* two events, the second run sends no task, fails no task, and leaves graph,
\* depending, pending, loads and targets as the first run left them.
C15_RescanIdempotent ==
    \A ord \in Orders(Iterated({})) :
        \A s1 \in {Rescan(Cur(ord), ord)} :
            \A s2 \in {Rescan([s1 EXCEPT !.sent = <<>>], ord)} :
                /\ Dispatched(s2) = {}
                /\ s2.all_failed = s1.all_failed
                /\ s2.replies = s1.replies
                /\ SameQueues(s1, s2)

\* the reply the client gets for a task whose engine died
Synthetic(m) == Len(replies'[m]) > Len(replies[m]) /\ Last(replies'[m]) = "died"

\* C16: no event removes or changes an entry of destinations, and a task that
\* is failed with the synthetic reply of handle_stranded_tasks gets
\* destinations[msg_id] set to the engine it was stranded on.
C16_DestinationsKept ==
    [][/\ \A m \in DOMAIN destinations :
              m \in DOMAIN destinations' /\ destinations'[m] = destinations[m]
       /\ \A m \in Tasks :
              Synthetic(m) =>
                  m \in DOMAIN destinations' /\ m \in PendingOn(destinations'[m])]_vars

\* the entries of depending the next audit finds expired
Expired == {m \in DOMAIN depending : depending[m].timeout # 0 /\ depending[m].timeout < AuditTime}

\* the replies a handler that ended in s sent for m
NewReplies(s, m) == {s.replies[m][k] : k \in (Len(replies[m]) + 1)..Len(s.replies[m])}

\* C17: the tasks that get a TaskTimeout reply in one run of audit_timeouts are
\* the entries of depending whose deadline is earlier than the audit time, and
\* the run sends no reply for a task that is pending on an engine.
C17_AuditFailsExpired ==
    \A ord \in Orders(Iterated({})) :
        \A s \in {audit_timeouts([Cur(ord) EXCEPT !.now = AuditTime])} :
            /\ {m \in Tasks : "TaskTimeout" \in NewReplies(s, m)} = Expired
            /\ \A m \in AllPending : NewReplies(s, m) = {} /\ m \notin s.all_failed \ all_failed

\* replies that finish their task: 'ok', or 'error' with no retries left
Final(q) == {"ok"} \cup (IF retries[q[2]] = 0 THEN {"error"} ELSE {})

\* dispatch_result for a reply of status st with dependencies_met
FinalReply(q, st, ord) ==
    dispatch_result([Cur(ord) EXCEPT !.inflight[q] = @ - 1], q[1], q[2], st, TRUE)

\* the tasks that wait on dep_id
Waiters(dep_id) ==
    IF dep_id \in DOMAIN graph THEN graph[dep_id] \cap DOMAIN depending ELSE {}

Stuck(s, w) ==
    /\ w \in DOMAIN s.depending
    /\ \/ unreachable(s.depending[w].after, s.all_completed, s.all_failed)
       \/ unreachable(s.depending[w].follow, s.all_completed, s.all_failed)

\* C18: when a reply finishes a task on a registered engine, the handler ends
\* without an exception and leaves no waiter of the task in depending with an
\* unreachable after or follow, whatever the order its loops take and whatever
\* a cascading failure has already removed.
C18_WaitersReevaluated ==
    \A q \in {p \in Answerable : p[1] \in Range(targets) /\ p[1] \in DOMAIN failed} :
        \A st \in Final(q) : \A ord \in Orders(Iterated({})) :
            \A s \in {FinalReply(q, st, ord)} :
                /\ s.exc = "none"
                /\ \A w \in Waiters(q[2]) : ~Stuck(s, w)

LoadOf(s, e) == s.loads[Index(s.targets, e)]

\* the replies whose finish_job takes a registered engine from hwm to hwm - 1
Freeing ==
    {q \in Waiting : /\ hwm > 0 /\ q[1] \in Range(targets) /\ LoadOf(Cur(<<>>), q[1]) = hwm
                     /\ q[2] \in PendingOn(q[1]) /\ q[2] \in DOMAIN retries}

\* the waiting tasks with `after` met that engine e could take but for its load
ParkedFor(e) ==
    {w \in DOMAIN depending :
        /\ check(depending[w].after, all_completed, all_failed)
        /\ e \notin BlacklistOf(Cur(<<>>), w)
        /\ depending[w].targets = {} \/ e \in depending[w].targets
        /\ e \in DOMAIN completed /\ e \in DOMAIN failed
        /\ check(depending[w].follow, completed[e], failed[e])}

\* C19: with hwm > 0, when a reply (a final result, a location miss or a
\* retried failure) takes a registered engine e from hwm to hwm - 1, every
\* waiting task with `after` met that only the load kept off e is sent to an
\* engine before the handler ends, unless the handler has filled e up again.
C19_HwmWakeup ==
    \A q \in Freeing : \A a \in Answers : \A ord \in Orders(Iterated({})) :
        \A s \in {dispatch_result([Cur(ord) EXCEPT !.inflight[q] = @ - 1],
                                  q[1], q[2], a[1], a[2])} :
            \A w \in ParkedFor(q[1]) :
                w \in Dispatched(s) \/ LoadOf(s, q[1]) = hwm

\* the follow ids that maybe_run looks up in destinations: the finished ones
\* the dependency counts
Relevant(follow) ==
    follow.ids \cap ((IF follow.success THEN all_completed ELSE {})
                     \cup (IF follow.failure THEN all_failed ELSE {}))
Dests(follow) == {destinations[m] : m \in Relevant(follow) \cap DOMAIN destinations}

\* the headers with a follow on all of its ids that pass the validation of
\* dispatch_submission, so that maybe_run is called
FollowAll ==
    {h \in HeaderInputs(family) :
        /\ h.follow.ids # {} /\ h.follow.all
        /\ ~InvalidHeader(NextId, h)
        /\ ~unreachable(h.follow, all_completed, all_failed)}

\* C20: a submission with follow on all of its ids ends without an exception;
\* when maybe_run sends it to no engine it is failed with ImpossibleDependency
\* if the finished follow ids have more than one destination, and is left in
\* depending otherwise, also when a follow id failed without running.
C20_FollowAllImpossible ==
    receiving /\ Cardinality(all_ids) < hist.tasks =>
        \A h \in FollowAll : \A ord \in Orders(Iterated({NextId} \cup DepIds(h))) :
            \A s \in {dispatch_submission(Cur(ord), <<>>, NextId, h)} :
                /\ s.exc = "none"
                /\ NextId \notin Dispatched(s) =>
                       IF Cardinality(Dests(h.follow)) > 1
                       THEN /\ NewReplies(s, NextId) = {"ImpossibleDependency"}
                            /\ NextId \in s.all_failed /\ NextId \notin DOMAIN s.depending
                       ELSE NextId \in DOMAIN s.depending /\ NewReplies(s, NextId) = {}

\* the replies that wait for dispatch_result, for tasks their engine still holds
Missable == {q \in Waiting : q[2] \in PendingOn(q[1])}

\* dispatch_result for a reply with dependencies_met false
MissReply(q, ord) ==
    dispatch_result([Cur(ord) EXCEPT !.inflight[q] = @ - 1], q[1], q[2], "error", FALSE)

\* the explicit targets of the task of reply q, and its blacklist once the
\* engine of q is added
TargetsOf(q) == pending[q[1]][q[2]].targets
Blacklisted(q) == BlacklistOf(Cur(<<>>), q[2]) \cup {q[1]}
Unplaceable(q) ==
    /\ TargetsOf(q) # {}
    /\ \/ TargetsOf(q) \subseteq Blacklisted(q)
       \/ (TargetsOf(q) \ Blacklisted(q)) \cap Range(targets) = {}

\* C21: a location miss adds the engine to blacklist[msg_id] and removes the
\* task from pending[engine]; a task with explicit targets all blacklisted, or
\* with no registered engine among targets minus blacklist, is failed with
\* ImpossibleDependency in the handler; any other task is sent to another
\* engine or put back in depending.
C21_LocationMiss ==
    \A q \in Missable : \A ord \in Orders(Iterated({})) :
        \A s \in {MissReply(q, ord)} :
            /\ q[1] \in BlacklistOf(s, q[2])
            /\ q[2] \notin DOMAIN s.pending[q[1]]
            /\ IF Unplaceable(q)
               THEN /\ NewReplies(s, q[2]) = {"ImpossibleDependency"}
                    /\ q[2] \in s.all_failed /\ q[2] \notin Held(s)
               ELSE \/ q[2] \in Dispatched(s) /\ PlacedOn(s, q[2]) # {}
                    \/ q[2] \in DOMAIN s.depending

\* the registered engines that pass the placement filter of maybe_run for the
\* waiting task w
Admissible(w) ==
    {i \in 1..Len(targets) :
        /\ targets[i] \in DOMAIN completed /\ targets[i] \in DOMAIN failed
        /\ can_run(Cur(<<>>), i, depending[w].targets, BlacklistOf(Cur(<<>>), w),
                   depending[w].follow)}

Placeable == {w \in DOMAIN depending :
                 check(depending[w].after, all_completed, all_failed) /\ Admissible(w) # {}}

\* C22: between two events no task waits in depending with its `after` met
\* while a registered engine passes the placement filter for it.
C22_NoMissedWakeup == Placeable = {}

\* the engines that left with tasks pending and whose handle_stranded_tasks
\* callback has not run yet
Grace == {e \in Engines : stranded[e] > 0 /\ e \notin Range(targets)}

\* the task is still known to the scheduler after the step
Tracked(m) ==
    \/ m \in DOMAIN depending' \/ m \in all_done'
    \/ \E e \in DOMAIN pending' : m \in DOMAIN pending'[e]

\* C23: when an engine registers again before the handle_stranded_tasks
\* callback of its unregistration has run, the tasks that were pending on it
\* stay with the scheduler, and the callback, when it runs, sends no synthetic
\* failure for a task held by a registered engine.
C23_ReregistrationKeepsTasks ==
    [][/\ \A e \in Grace : e \in Range(targets') => \A m \in PendingOn(e) : Tracked(m)
       /\ \A e \in Range(targets) : \A m \in PendingOn(e) : ~Synthetic(m)]_vars

\* the handler ended in the ValueError of min() over an empty load vector
EmptyLoads(s) == s.exc = "ValueError" /\ s.loads = <<>>

\* the replies an engine may still deliver, and the callbacks still scheduled
LateReplies == {q \in Engines \X Tasks : inflight[q] > 0}
Callbacks == {e \in Engines : stranded[e] > 0}

\* C24: the load policy is never invoked on an empty load vector: no handler
\* ends in the ValueError of leastload, and neither a reply of an engine nor
\* the handle_stranded_tasks callback reaches submit_task with no engine
\* registered.
C24_LoadsNeverEmpty ==
    /\ exc # "ValueError"
    /\ \A ord \in Orders(Iterated({})) :
        /\ \A q \in LateReplies : \A a \in Answers :
              ~EmptyLoads(dispatch_result([Cur(ord) EXCEPT !.inflight[q] = @ - 1],
                                          q[1], q[2], a[1], a[2]))
        /\ \A e \in Callbacks :
              ~EmptyLoads(handle_stranded_tasks([Cur(ord) EXCEPT !.stranded[e] = @ - 1], e))

\* the client has a reply for the task and the scheduler holds it no longer
Answered(m) == replies[m] # <<>> /\ m \notin Held(Cur(<<>>))

\* C25: while no engine leaves and every engine answers each task it was sent
\* with 'ok' and its dependencies met, every submitted task without targets,
\* whose after and follow name earlier tasks, eventually leaves depending and
\* pending and has a reply at the client.
C25_EventualReply == \A m \in 1..MaxTasks : (m \in all_ids) ~> Answered(m)
====
